---- MODULE Spec2Model ----
(***************************************************************************)
(* Model of the attendance reconciliation engine                           *)
(* (backend/attendance_core/compute.py) together with the shape of the     *)
(* two tables its parsers hand to it.                                      *)
(*                                                                         *)
(* Time.  A timestamp is an integer number of minutes since 00:00 of date  *)
(* 0; a date is a day number; a time of day is a minute of the day.  All   *)
(* timestamps carry one fixed UTC offset (no daylight-saving change inside *)
(* the modelled days), so datetime subtraction and comparison are integer  *)
(* subtraction and comparison, .date() is the quotient and .time() the     *)
(* remainder by the minutes of a day.                                      *)
(*                                                                         *)
(* Numbers.  Minutes are integers (punches and shift bounds are HH:MM).    *)
(* attendance_fraction is the exact quotient, kept as numerator and        *)
(* denominator.  A Summary figure that the code rounds to 2 decimals is    *)
(* kept as the rounded value times 100 (13.5 hours is 1350).               *)
(***************************************************************************)
EXTENDS Integers, Sequences, FiniteSets, TLC

\* Python's None for a missing timestamp (every timestamp is >= 0).  A punch
\* time the report does not hold is None in the punch table, the value
\* build_attendance tests for with "is not None".
None == -1

\* timedelta(days=1), in minutes
MinutesPerDay == 1440

\* Longest punch table and longest schedule table explored
MaxPunch == 2
MaxSched == 2

Max(a, b) == IF a >= b THEN a ELSE b
Min(a, b) == IF a <= b THEN a ELSE b

(***************************************************************************)
(* datetime                                                                *)
(***************************************************************************)
\* datetime.date()
DateOf(dt) == dt \div MinutesPerDay

\* datetime.time()
TimeOf(dt) == dt % MinutesPerDay

\* utils.combine_date_time: None for a missing time, else date + time
combine_date_time(date_obj, time_obj) ==
    IF time_obj = None THEN None ELSE date_obj * MinutesPerDay + time_obj

(***************************************************************************)
(* Configuration                                                           *)
(***************************************************************************)
\* config.DEFAULT_SHIFT_CONFIG / models.PolicyConfig defaults:
\* AM 09:45-16:30, PM 16:00-00:15 crossing midnight
DEFAULT_SHIFT_CONFIG ==
    [am |-> [start |-> 585, end |-> 990, cross_midnight |-> FALSE],
     pm |-> [start |-> 960, end |-> 15,  cross_midnight |-> TRUE],
     tardy_minutes |-> 5,
     early_minutes |-> 15]

\* PolicyConfig: the default, and one with both thresholds overridden to 0
PolicyConfigs ==
    { DEFAULT_SHIFT_CONFIG,
      [DEFAULT_SHIFT_CONFIG EXCEPT !.tardy_minutes = 0, !.early_minutes = 0] }

(***************************************************************************)
(* The schedule table, as parse_schedule builds it                         *)
(***************************************************************************)
ScheduleDates == {0, 1}

\* One schedule record: the shift's configured window, started at the time
\* written in the grid cell when the cell holds one (explicit_start)
ScheduleRecord(schedule_date, shift_type, explicit_start, cfg) ==
    LET shift_config   == IF shift_type = "AM" THEN cfg.am ELSE cfg.pm
        shift_start    == IF explicit_start # None THEN explicit_start
                          ELSE shift_config.start
        end_date       == IF shift_config.cross_midnight
                          THEN schedule_date + 1 ELSE schedule_date
    IN  [date           |-> schedule_date,
         shift_type     |-> shift_type,
         sched_start_dt |-> combine_date_time(schedule_date, shift_start),
         sched_end_dt   |-> combine_date_time(end_date, shift_config.end)]

\* Grid cells explored, <<shift type, time written in the cell>>: on every
\* date an AM and a PM cell with no time; on the first date also an AM cell
\* with 16:30 (a window of length 0) and one with 17:00 (a window that ends
\* before it starts)
ScheduleCells(schedule_date) ==
    { <<"AM", None>>, <<"PM", None>> }
    \cup (IF schedule_date = 0 THEN { <<"AM", 990>>, <<"AM", 1020>> } ELSE {})

ScheduleRows(cfg) ==
    UNION { { ScheduleRecord(d, c[1], c[2], cfg) : c \in ScheduleCells(d) } :
            d \in ScheduleDates }

ShiftTypeOrd(t) == IF t = "AM" THEN 0 ELSE 1

\* schedule_df.sort_values(['date', 'shift_type'])
SortedBySchedKey(s) ==
    \A i \in 1..(Len(s) - 1) :
        \/ s[i].date < s[i + 1].date
        \/ /\ s[i].date = s[i + 1].date
           /\ ShiftTypeOrd(s[i].shift_type) <= ShiftTypeOrd(s[i + 1].shift_type)

ScheduleTables(cfg) ==
    { s \in UNION { [1..k -> ScheduleRows(cfg)] : k \in 0..MaxSched } :
        SortedBySchedKey(s) }

(***************************************************************************)
(* The punch table, as parse_punch_clock builds it                         *)
(***************************************************************************)
PunchDates == {0, 1}

\* One punch record: every time of the report block is put on the block's date
PunchRecord(current_date, in1_time, out1_time, in2_time, out2_time) ==
    [date |-> current_date,
     in1  |-> combine_date_time(current_date, in1_time),
     out1 |-> combine_date_time(current_date, out1_time),
     in2  |-> combine_date_time(current_date, in2_time),
     out2 |-> combine_date_time(current_date, out2_time)]

\* Report rows explored, <<IN 1, OUT 1, IN 2, OUT 2>> as times of day
PunchTimes ==
    { <<590,  720,  750,  1050>>,   \* 09:50-17:30, lunch 12:00-12:30
      <<590,  720,  700,  975>>,    \* 09:50-16:15, lunch in before lunch out
      <<958,  None, None, 10>>,     \* 15:58-00:10, no lunch
      <<None, None, None, 975>>,    \* clock-out only
      <<590,  720,  700,  None>> }  \* no clock-out

PunchRows ==
    { PunchRecord(d, t[1], t[2], t[3], t[4]) : d \in PunchDates, t \in PunchTimes }

PunchTables == UNION { [1..k -> PunchRows] : k \in 0..MaxPunch }

(***************************************************************************)
(* build_attendance, per scheduled shift                                   *)
(***************************************************************************)
\* Mutant of PunchMatches: the date filter is dropped
PunchMatches_AnyDate(punch_df, shift_date) == punch_df

\* punch_df[punch_df['date'] == shift_date]: the rows of that date, in
\* table order
PunchMatches(punch_df, shift_date) ==
    SelectSeq(punch_df, LAMBDA row : row.date = shift_date)

\* Mutant of SelectPunchRow: the last matching row, not the first
SelectPunchRow_Last(punch_matches) == punch_matches[Len(punch_matches)]

\* punch_matches.iloc[0]
SelectPunchRow(punch_matches) == punch_matches[1]

\* Mutant of IsPresent: any matched punch row counts as present
IsPresent_AnyRow(actual_in) == TRUE

\* present = actual_in is not None
IsPresent(actual_in) == actual_in # None

\* cross_midnight = sched_end_dt.date() > sched_start_dt.date()
CrossMidnight(sched_start_dt, sched_end_dt) ==
    DateOf(sched_end_dt) > DateOf(sched_start_dt)

\* Mutant of NormalizeActualOut: the clock-out is never moved
NormalizeActualOut_Never(cross_midnight, actual_in, actual_out) == actual_out

\* Mutant of NormalizeActualOut: the cross-midnight test is dropped
NormalizeActualOut_AnyShift(cross_midnight, actual_in, actual_out) ==
    IF TimeOf(actual_out) < TimeOf(actual_in)
    THEN actual_out + MinutesPerDay
    ELSE actual_out

\* The clock-out of a cross-midnight shift whose time of day is before the
\* clock-in's is moved to the next day (reached only with both present)
NormalizeActualOut(cross_midnight, actual_in, actual_out) ==
    IF cross_midnight /\ TimeOf(actual_out) < TimeOf(actual_in)
    THEN actual_out + MinutesPerDay
    ELSE actual_out

\* Mutant of NormalizeActualIn2: the cross-midnight test is dropped
NormalizeActualIn2_AnyShift(cross_midnight, actual_out1, actual_in2) ==
    IF /\ actual_out1 # None
       /\ actual_in2 # None
       /\ TimeOf(actual_in2) < TimeOf(actual_out1)
    THEN actual_in2 + MinutesPerDay
    ELSE actual_in2

\* The same for the lunch clock-in against the lunch clock-out
NormalizeActualIn2(cross_midnight, actual_out1, actual_in2) ==
    IF /\ cross_midnight
       /\ actual_out1 # None
       /\ actual_in2 # None
       /\ TimeOf(actual_in2) < TimeOf(actual_out1)
    THEN actual_in2 + MinutesPerDay
    ELSE actual_in2

\* Mutant of LunchMinutes: a negative lunch duration is not floored
LunchMinutes_Unfloored(actual_out1, actual_in2) ==
    IF actual_out1 # None /\ actual_in2 # None
    THEN actual_in2 - actual_out1
    ELSE 0

\* lunch_minutes: in2 - out1 when both exist and the difference is positive
LunchMinutes(actual_out1, actual_in2) ==
    IF actual_out1 # None /\ actual_in2 # None
    THEN LET lunch_duration == actual_in2 - actual_out1
         IN  Max(0, IF lunch_duration > 0 THEN lunch_duration ELSE 0)
    ELSE 0

\* worked_minutes = max(0.0, total_minutes - lunch_minutes)
WorkedMinutes(actual_in, actual_out, lunch_minutes) ==
    Max(0, (actual_out - actual_in) - lunch_minutes)

\* Mutant of IsTardy: >= in place of >
IsTardy_AtThreshold(present, actual_in, sched_start_dt, tardy_minutes) ==
    /\ present
    /\ actual_in # None
    /\ actual_in >= sched_start_dt + tardy_minutes

\* Tardy check
IsTardy(present, actual_in, sched_start_dt, tardy_minutes) ==
    /\ present
    /\ actual_in # None
    /\ actual_in > sched_start_dt + tardy_minutes

\* Mutant of IsEarlyDismissal: made outside "if present"
IsEarlyDismissal_Unguarded(present, actual_out, sched_end_dt, early_minutes) ==
    /\ actual_out # None
    /\ actual_out < sched_end_dt - early_minutes

\* Mutant of IsEarlyDismissal: <= in place of <
IsEarlyDismissal_AtThreshold(present, actual_out, sched_end_dt, early_minutes) ==
    /\ present
    /\ actual_out # None
    /\ actual_out <= sched_end_dt - early_minutes

\* Early dismissal check
IsEarlyDismissal(present, actual_out, sched_end_dt, early_minutes) ==
    /\ present
    /\ actual_out # None
    /\ actual_out < sched_end_dt - early_minutes

\* utils.clamp
clamp(value, min_val, max_val) == Max(min_val, Min(value, max_val))

\* Python's float division: a quotient, or ZeroDivisionError when den = 0
Divide(a, b) == [num |-> a, den |-> b]

\* Mutant of AttendanceFraction: the sched_minutes > 0 guard is dropped
AttendanceFraction_Unguarded(worked_minutes_clipped, sched_minutes) ==
    Divide(worked_minutes_clipped, sched_minutes)

\* attendance_fraction
AttendanceFraction(worked_minutes_clipped, sched_minutes) ==
    IF sched_minutes > 0
    THEN Divide(worked_minutes_clipped, sched_minutes)
    ELSE Divide(0, 1)

\* The actual times and worked minutes taken from the matched punch row
\* (the body of "if not punch_matches.empty")
FromPunchRow(punch_row, sched_start_dt, sched_end_dt) ==
    LET actual_in      == punch_row.in1
        out2           == punch_row.out2
        actual_out1    == punch_row.out1
        in2            == punch_row.in2
        present        == IsPresent(actual_in)
        computed       == present /\ out2 # None
        cross_midnight == CrossMidnight(sched_start_dt, sched_end_dt)
        actual_out     == IF computed
                          THEN NormalizeActualOut(cross_midnight, actual_in, out2)
                          ELSE out2
        actual_in2     == IF computed
                          THEN NormalizeActualIn2(cross_midnight, actual_out1, in2)
                          ELSE in2
    IN  [actual_in      |-> actual_in,
         actual_out     |-> actual_out,
         actual_out1    |-> actual_out1,
         actual_in2     |-> actual_in2,
         present        |-> present,
         worked_minutes |-> IF computed
                            THEN WorkedMinutes(actual_in, actual_out,
                                               LunchMinutes(actual_out1, actual_in2))
                            ELSE 0]

\* The default values of a shift before a punch row is looked at
NoPunch ==
    [actual_in |-> None, actual_out |-> None, actual_out1 |-> None,
     actual_in2 |-> None, present |-> FALSE, worked_minutes |-> 0]

\* One iteration of the loop over schedule_df: the DayRecord of one shift
ProcessShift(sched_row, punch_df, config) ==
    LET sched_start_dt == sched_row.sched_start_dt
        sched_end_dt   == sched_row.sched_end_dt
        sched_minutes  == sched_end_dt - sched_start_dt
        punch_matches  == PunchMatches(punch_df, sched_row.date)
        a              == IF Len(punch_matches) > 0
                          THEN FromPunchRow(SelectPunchRow(punch_matches),
                                            sched_start_dt, sched_end_dt)
                          ELSE NoPunch
        clipped        == clamp(a.worked_minutes, 0, sched_minutes)
    IN  [date                   |-> sched_row.date,
         shift_type             |-> sched_row.shift_type,
         sched_start_dt         |-> sched_start_dt,
         sched_end_dt           |-> sched_end_dt,
         actual_in              |-> a.actual_in,
         actual_out             |-> a.actual_out,
         actual_out1            |-> a.actual_out1,
         actual_in2             |-> a.actual_in2,
         sched_minutes          |-> sched_minutes,
         worked_minutes         |-> a.worked_minutes,
         worked_minutes_clipped |-> clipped,
         attendance_fraction    |-> AttendanceFraction(clipped, sched_minutes),
         present                |-> a.present,
         tardy                  |-> IsTardy(a.present, a.actual_in, sched_start_dt,
                                            config.tardy_minutes),
         early_dismissal        |-> IsEarlyDismissal(a.present, a.actual_out,
                                                     sched_end_dt,
                                                     config.early_minutes)]

\* The warnings one iteration appends
ShiftWarnings(sched_row, punch_df) ==
    IF Len(PunchMatches(punch_df, sched_row.date)) > 1
    THEN << [warning |-> "Multiple punch records found", date |-> sched_row.date] >>
    ELSE << >>

\* The punch table without its first row of the date
WithoutFirstMatch(punch_df, shift_date) ==
    LET idx == { k \in 1..Len(punch_df) : punch_df[k].date = shift_date }
    IN  IF idx = {} THEN punch_df
        ELSE LET f == CHOOSE k \in idx : \A j \in idx : k <= j
             IN  [k \in 1..(Len(punch_df) - 1) |->
                     IF k < f THEN punch_df[k] ELSE punch_df[k + 1]]

\* Mutant of DayRecords: a punch row matched by an earlier shift of the same
\* date is used up
DayRecords_ConsumePunch(punch_df, schedule_df, config) ==
    [i \in 1..Len(schedule_df) |->
        ProcessShift(schedule_df[i],
                     IF \E j \in 1..(i - 1) : schedule_df[j].date = schedule_df[i].date
                     THEN WithoutFirstMatch(punch_df, schedule_df[i].date)
                     ELSE punch_df,
                     config)]

\* Mutant of DayRecords: a shift without a punch row gets no record
DayRecords_MatchedOnly(punch_df, schedule_df, config) ==
    LET matched == SelectSeq(schedule_df,
                             LAMBDA row : Len(PunchMatches(punch_df, row.date)) > 0)
    IN  [i \in 1..Len(matched) |-> ProcessShift(matched[i], punch_df, config)]

\* day_records after the loop: one append per schedule row, in row order
DayRecords(punch_df, schedule_df, config) ==
    [i \in 1..Len(schedule_df) |-> ProcessShift(schedule_df[i], punch_df, config)]

RECURSIVE Warnings(_, _, _)
\* warnings after the first n iterations of the loop
Warnings(punch_df, schedule_df, n) ==
    IF n = 0 THEN << >>
    ELSE Warnings(punch_df, schedule_df, n - 1)
         \o ShiftWarnings(schedule_df[n], punch_df)

(***************************************************************************)
(* calculate_summary                                                       *)
(***************************************************************************)
\* round(num / den, 0) for den > 0, ties to even as Python rounds
RoundHalfEven(num, den) ==
    LET q == num \div den
        r == num - q * den
    IN  IF 2 * r < den THEN q
        ELSE IF 2 * r > den THEN q + 1
        ELSE IF q % 2 = 0 THEN q ELSE q + 1

\* round(num / den, 2), as the rounded value times 100
Round2(num, den) == RoundHalfEven(num * 100, den)

RECURSIVE SumMinutes_SkipFirst(_, _)
\* Mutant of SumMinutes: the first element is left out of the sum
SumMinutes_SkipFirst(minutes, n) ==
    IF n <= 1 THEN 0 ELSE SumMinutes_SkipFirst(minutes, n - 1) + minutes[n]

RECURSIVE SumMinutes(_, _)
\* sum(minutes[:n]) of a sequence of minutes
SumMinutes(minutes, n) ==
    IF n = 0 THEN 0 ELSE SumMinutes(minutes, n - 1) + minutes[n]

\* sum(1 for record in day_records if flag), flags being the records' flags
CountTrue(flags) == Cardinality({ i \in 1..Len(flags) : flags[i] })

\* Mutant of WorkedTotal: the uncapped worked_minutes are summed
WorkedTotal_Uncapped(records) ==
    SumMinutes([i \in 1..Len(records) |-> records[i].worked_minutes], Len(records))

\* sum(record.worked_minutes_clipped for record in day_records)
WorkedTotal(records) ==
    SumMinutes([i \in 1..Len(records) |-> records[i].worked_minutes_clipped],
               Len(records))

\* sum(record.sched_minutes for record in day_records)
ScheduledTotal(records) ==
    SumMinutes([i \in 1..Len(records) |-> records[i].sched_minutes], Len(records))

\* Mutant of AttendancePctHours: computed from the hours already rounded to
\* 2 decimals
AttendancePctHours_FromRounded(worked_total, sched_total) ==
    IF Round2(sched_total, 60) > 0
    THEN RoundHalfEven(Round2(worked_total, 60) * 100 * 100, Round2(sched_total, 60))
    ELSE 0

\* round((worked_hours / scheduled_hours * 100) if scheduled_hours > 0
\*       else 0.0, 2), the hours being the unrounded sums / 60
AttendancePctHours(worked_total, sched_total) ==
    IF sched_total > 0
    THEN Round2(worked_total * 100, sched_total)
    ELSE 0

calculate_summary(records) ==
    IF Len(records) = 0
    THEN [scheduled_shifts |-> 0, shifts_worked |-> 0,
          attendance_pct_shifts |-> 0, scheduled_hours |-> 0,
          worked_hours |-> 0, attendance_pct_hours |-> 0,
          tardy_count |-> 0, early_dismissal_count |-> 0]
    ELSE
    LET n                == Len(records)
        scheduled_shifts == n
        shifts_worked    == CountTrue([i \in 1..n |-> records[i].present])
        sched_total      == ScheduledTotal(records)
        worked_total     == WorkedTotal(records)
    IN  [scheduled_shifts      |-> scheduled_shifts,
         shifts_worked         |-> shifts_worked,
         attendance_pct_shifts |-> IF scheduled_shifts > 0
                                   THEN Round2(shifts_worked * 100, scheduled_shifts)
                                   ELSE 0,
         scheduled_hours       |-> Round2(sched_total, 60),
         worked_hours          |-> Round2(worked_total, 60),
         attendance_pct_hours  |-> AttendancePctHours(worked_total, sched_total),
         tardy_count           |-> CountTrue([i \in 1..n |-> records[i].tardy]),
         early_dismissal_count |-> CountTrue([i \in 1..n |->
                                                 records[i].early_dismissal])]

(***************************************************************************)
(* State: one call of build_attendance                                     *)
(***************************************************************************)
VARIABLES
    punch_df,       \* argument: the punch table
    schedule_df,    \* argument: the schedule table
    config,         \* argument: the PolicyConfig
    pc,             \* "called" before the call returns, then "returned"
    day_records,    \* returned list of DayRecord
    summary,        \* returned Summary
    warnings,       \* returned list of warnings
    raised,         \* the exception the call ended with, NoException if none
    result_storage, \* app.result_storage: job id -> stored AttendanceResponse
    response        \* the service's answer to the last HTTP request

vars == << punch_df, schedule_df, config, pc, day_records, summary, warnings, raised,
           result_storage, response >>

\* result_storage = {}
EmptyStorage == << >>

\* No request answered yet
NoResponse == [endpoint |-> "none"]

NoException == "none"
ZeroDivisionError == "ZeroDivisionError"

\* The exception the loop raises on its way, if any
LoopException(records) ==
    IF \E i \in 1..Len(records) : records[i].attendance_fraction.den = 0
    THEN ZeroDivisionError
    ELSE NoException

Init ==
    /\ config \in PolicyConfigs
    /\ schedule_df \in ScheduleTables(config)
    /\ punch_df \in PunchTables
    /\ pc = "called"
    /\ day_records = << >>
    /\ summary = calculate_summary(<< >>)
    /\ warnings = << >>
    /\ raised = NoException
    /\ result_storage = EmptyStorage
    /\ response = NoResponse

\* build_attendance(punch_df, schedule_df, config), from call to return
BuildAttendance ==
    /\ pc = "called"
    /\ LET records == DayRecords(punch_df, schedule_df, config)
           exc     == LoopException(records)
       IN  /\ raised' = exc
           /\ IF exc = NoException
              THEN /\ day_records' = records
                   /\ summary' = calculate_summary(records)
                   /\ warnings' = Warnings(punch_df, schedule_df, Len(schedule_df))
              ELSE UNCHANGED << day_records, summary, warnings >>
    /\ pc' = "returned"
    /\ UNCHANGED << punch_df, schedule_df, config, result_storage, response >>

Next == BuildAttendance

Spec == Init /\ [][Next]_vars

(***************************************************************************)
(* calculate_summary called on its own, as tests/test_compute.py calls it  *)
(***************************************************************************)
\* Longest list of DayRecords explored
MaxRecords == 3

\* The two DayRecords of test_calculate_summary_with_records
TestRecords ==
    << [date |-> 0, shift_type |-> "AM",
        sched_start_dt |-> 585, sched_end_dt |-> 990,
        actual_in |-> 590, actual_out |-> 990,
        actual_out1 |-> None, actual_in2 |-> None,
        sched_minutes |-> 405, worked_minutes |-> 400,
        worked_minutes_clipped |-> 400,
        attendance_fraction |-> Divide(988, 1000),
        present |-> TRUE, tardy |-> TRUE, early_dismissal |-> FALSE],
       [date |-> 1, shift_type |-> "AM",
        sched_start_dt |-> 2025, sched_end_dt |-> 2430,
        actual_in |-> None, actual_out |-> None,
        actual_out1 |-> None, actual_in2 |-> None,
        sched_minutes |-> 405, worked_minutes |-> 0,
        worked_minutes_clipped |-> 0,
        attendance_fraction |-> Divide(0, 1),
        present |-> FALSE, tardy |-> FALSE, early_dismissal |-> FALSE] >>

\* DayRecords explored: the test's two, and the records build_attendance
\* makes of the first date's shifts with one punch entry of that date
SummaryRecords ==
    { TestRecords[1], TestRecords[2] }
    \cup { ProcessShift(row, << p >>, DEFAULT_SHIFT_CONFIG) :
              row \in { r \in ScheduleRows(DEFAULT_SHIFT_CONFIG) : r.date = 0 },
              p \in { q \in PunchRows : q.date = 0 } }

SummaryInputs == UNION { [1..k -> SummaryRecords] : k \in 0..MaxRecords }

InitSummary ==
    /\ day_records \in SummaryInputs
    /\ pc = "called"
    /\ summary = calculate_summary(<< >>)
    /\ punch_df = << >>
    /\ schedule_df = << >>
    /\ config = DEFAULT_SHIFT_CONFIG
    /\ warnings = << >>
    /\ raised = NoException
    /\ result_storage = EmptyStorage
    /\ response = NoResponse

\* summary = calculate_summary(day_records)
CalculateSummary ==
    /\ pc = "called"
    /\ summary' = calculate_summary(day_records)
    /\ pc' = "returned"
    /\ UNCHANGED << punch_df, schedule_df, config, day_records, warnings, raised,
                    result_storage, response >>

NextSummary == CalculateSummary

SpecSummary == InitSummary /\ [][NextSummary]_vars

(***************************************************************************)
(* The service layer (app.py): compute_attendance and download_csv over    *)
(* the module-level result_storage                                         *)
(***************************************************************************)
\* Number of job ids explored.  A job id is str(uuid.uuid4()); uuid4 is taken
\* never to return an id it returned before.
MaxJobs == 3

JobIds == 1..MaxJobs

\* Uploads explored, as the tables the two parsers make of them
ServiceUploads ==
    LET am == ScheduleRecord(0, "AM", None, DEFAULT_SHIFT_CONFIG)
        pm == ScheduleRecord(0, "PM", None, DEFAULT_SHIFT_CONFIG)
    IN  { [schedule_df |-> << am >>,
           punch_df    |-> << PunchRecord(0, 590, 720, 750, 1050) >>],
          [schedule_df |-> << am, pm >>,
           punch_df    |-> << PunchRecord(0, 958, None, None, 10) >>],
          [schedule_df |-> << pm >>,
           punch_df    |-> << PunchRecord(1, 590, 720, 700, None) >>] }

\* process_attendance: the AttendanceResponse for parsed uploads
process_attendance(upload, policy_config) ==
    LET records == DayRecords(upload.punch_df, upload.schedule_df, policy_config)
    IN  [config_used |-> policy_config,
         summary     |-> calculate_summary(records),
         day_level   |-> records]

\* result_storage[job_id] = result
StoreResult(storage, job_id, result) ==
    [j \in (DOMAIN storage) \cup {job_id} |->
        IF j = job_id THEN result ELSE storage[j]]

\* Mutant of StorageAfterDownload: a downloaded result is popped from the store
StorageAfterDownload_Pop(storage, job_id) ==
    [j \in (DOMAIN storage) \ {job_id} |-> storage[j]]

\* result_storage after download_csv(job_id): the handler only reads it
StorageAfterDownload(storage, job_id) == storage

InitService ==
    /\ result_storage = EmptyStorage
    /\ response = NoResponse
    /\ punch_df = << >>
    /\ schedule_df = << >>
    /\ config = DEFAULT_SHIFT_CONFIG
    /\ pc = "serving"
    /\ day_records = << >>
    /\ summary = calculate_summary(<< >>)
    /\ warnings = << >>
    /\ raised = NoException

\* POST /attendance/compute, files accepted: the result is stored under a
\* fresh job id and returned
ComputeAttendance ==
    /\ \E upload \in ServiceUploads, policy_config \in PolicyConfigs :
         \E job_id \in JobIds \ DOMAIN result_storage :
            LET result == process_attendance(upload, policy_config)
            IN  /\ result_storage' = StoreResult(result_storage, job_id, result)
                /\ response' = [endpoint |-> "compute", status |-> 200,
                                body |-> result]
    /\ UNCHANGED << punch_df, schedule_df, config, pc, day_records, summary,
                    warnings, raised >>

\* POST /attendance/compute, a file refused or unreadable: HTTPException 400
\* leaves compute_attendance before anything is stored
ComputeAttendanceRejected ==
    /\ response' = [endpoint |-> "compute", status |-> 400]
    /\ UNCHANGED << punch_df, schedule_df, config, pc, day_records, summary,
                    warnings, raised, result_storage >>

\* GET /attendance/{job_id}/csv.  The body of a 200 answer is the CSV text
\* written from result_storage[job_id]; the model keeps the entry it is
\* written from.
DownloadCsv ==
    /\ \E job_id \in JobIds :
         IF job_id \notin DOMAIN result_storage
         THEN /\ response' = [endpoint |-> "csv", job_id |-> job_id, status |-> 404]
              /\ UNCHANGED result_storage
         ELSE /\ response' = [endpoint |-> "csv", job_id |-> job_id, status |-> 200,
                              body |-> result_storage[job_id]]
              /\ result_storage' = StorageAfterDownload(result_storage, job_id)
    /\ UNCHANGED << punch_df, schedule_df, config, pc, day_records, summary,
                    warnings, raised >>

NextService == ComputeAttendance \/ ComputeAttendanceRejected \/ DownloadCsv

SpecService == InitService /\ [][NextService]_vars

(***************************************************************************)
(* Properties                                                              *)
(***************************************************************************)
\* The call has returned normally
Returned == pc = "returned" /\ raised = NoException

Shifts == 1..Len(schedule_df)

\* Positions in the punch table of the entries with the date of shift i
MatchIdx(i) == { k \in 1..Len(punch_df) : punch_df[k].date = schedule_df[i].date }

\* The first of them in table order
FirstIdx(i) == CHOOSE k \in MatchIdx(i) : \A j \in MatchIdx(i) : k <= j

FirstPunch(i) == punch_df[FirstIdx(i)]

ShiftCrossesMidnight(i) ==
    schedule_df[i].sched_end_dt \div MinutesPerDay
        > schedule_df[i].sched_start_dt \div MinutesPerDay

\* C1 (as claimed): every DayRecord returned by build_attendance has
\* 0 <= worked_minutes_clipped <= sched_minutes, for every schedule table.
\* Violated by a shift whose window ends before it starts.
C1_ClippedWithinScheduled ==
    pc = "returned" =>
        \A i \in 1..Len(day_records) :
            /\ 0 <= day_records[i].worked_minutes_clipped
            /\ day_records[i].worked_minutes_clipped <= day_records[i].sched_minutes

\* C2: the call raises no division error, and in every DayRecord
\* attendance_fraction is worked_minutes_clipped / sched_minutes, within
\* [0, 1], when sched_minutes > 0 and is exactly 0 when sched_minutes = 0.
C2_AttendanceFraction ==
    pc = "returned" =>
        /\ raised = NoException
        /\ Len(day_records) = Len(schedule_df)
        /\ \A i \in 1..Len(day_records) :
             LET r == day_records[i]
                 f == r.attendance_fraction
             IN  /\ f.den > 0
                 /\ r.sched_minutes > 0 =>
                      /\ f.num * r.sched_minutes = r.worked_minutes_clipped * f.den
                      /\ 0 <= f.num
                      /\ f.num <= f.den
                 /\ r.sched_minutes = 0 => f.num = 0

\* C2 witness: one call returned a shift of length 0 and a shift worked for a
\* positive part of a positive window
C2_Witness ==
    /\ Returned
    /\ \E i \in 1..Len(day_records) :
         /\ day_records[i].sched_minutes = 0
         /\ day_records[i].attendance_fraction.num = 0
    /\ \E i \in 1..Len(day_records) :
         /\ day_records[i].sched_minutes > 0
         /\ day_records[i].attendance_fraction.num > 0

\* C3 (as claimed): worked_minutes_clipped is worked_minutes when that is at
\* most sched_minutes, and sched_minutes when worked_minutes exceeds it.
\* Violated by a shift whose window ends before it starts.
C3_ClippedIsMinOfWorkedAndScheduled ==
    pc = "returned" =>
        \A i \in 1..Len(day_records) :
            LET r == day_records[i]
            IN  /\ r.worked_minutes <= r.sched_minutes =>
                     r.worked_minutes_clipped = r.worked_minutes
                /\ r.worked_minutes > r.sched_minutes =>
                     r.worked_minutes_clipped = r.sched_minutes

\* C4: the call raises nothing and returns one DayRecord per schedule row, in
\* row order, the i-th carrying the i-th row's date, shift_type,
\* sched_start_dt and sched_end_dt, whatever the punch table.
C4_OneRecordPerShiftInOrder ==
    pc = "returned" =>
        /\ raised = NoException
        /\ Len(day_records) = Len(schedule_df)
        /\ \A i \in Shifts :
             /\ day_records[i].date = schedule_df[i].date
             /\ day_records[i].shift_type = schedule_df[i].shift_type
             /\ day_records[i].sched_start_dt = schedule_df[i].sched_start_dt
             /\ day_records[i].sched_end_dt = schedule_df[i].sched_end_dt

\* C4 witness: two different shifts, one with no punch entry and one with two
C4_Witness ==
    /\ Returned
    /\ Len(day_records) = 2
    /\ day_records[1] # day_records[2]
    /\ \E i \in Shifts : MatchIdx(i) = {}
    /\ \E i \in Shifts : Cardinality(MatchIdx(i)) > 1

\* C5: a shift whose date no punch entry has is absent: present, tardy and
\* early_dismissal false, worked_minutes 0, all four actual times unset.
C5_UnmatchedShiftAbsent ==
    pc = "returned" =>
        /\ Len(day_records) = Len(schedule_df)
        /\ \A i \in Shifts :
             MatchIdx(i) = {} =>
                /\ ~day_records[i].present
                /\ ~day_records[i].tardy
                /\ ~day_records[i].early_dismissal
                /\ day_records[i].worked_minutes = 0
                /\ day_records[i].actual_in = None
                /\ day_records[i].actual_out = None
                /\ day_records[i].actual_out1 = None
                /\ day_records[i].actual_in2 = None

\* C5 witness: a shift without a punch entry, in a call whose punch table has
\* an entry (with a clock-in) for another date
C5_Witness ==
    /\ Returned
    /\ \E i \in Shifts : MatchIdx(i) = {} /\ ~day_records[i].present
    /\ \E k \in 1..Len(punch_df) : punch_df[k].in1 # None

\* C6: with several punch entries on the shift's date the DayRecord is the
\* one computed from the first of them alone, the call raises nothing, and
\* each such shift adds one 'Multiple punch records' warning for its date.
C6_FirstDuplicateWins ==
    pc = "returned" =>
        /\ raised = NoException
        /\ Len(day_records) = Len(schedule_df)
        /\ \A i \in Shifts :
             Cardinality(MatchIdx(i)) > 1 =>
                /\ day_records[i] = ProcessShift(schedule_df[i], << FirstPunch(i) >>, config)
                /\ day_records[i].actual_in = FirstPunch(i).in1
                /\ \E w \in 1..Len(warnings) :
                     /\ warnings[w].warning = "Multiple punch records found"
                     /\ warnings[w].date = schedule_df[i].date
        /\ Len(warnings) = Cardinality({ i \in Shifts : Cardinality(MatchIdx(i)) > 1 })

\* C6 witness: two entries on the shift's date, the second with the earlier
\* clock-in, and the record carries the first one's clock-in
C6_Witness ==
    /\ Returned
    /\ \E i \in Shifts :
         /\ Cardinality(MatchIdx(i)) > 1
         /\ \E k \in MatchIdx(i) :
              /\ punch_df[k].in1 # None
              /\ punch_df[k].in1 < FirstPunch(i).in1
         /\ day_records[i].actual_in = FirstPunch(i).in1
         /\ Len(warnings) > 0

\* C7: for a shift with a matched punch entry, present holds exactly when the
\* entry's in1 exists; in1 without out2 gives present with 0 worked minutes,
\* out2 without in1 gives not present.
C7_PresentIffClockIn ==
    pc = "returned" =>
        /\ Len(day_records) = Len(schedule_df)
        /\ \A i \in Shifts :
             MatchIdx(i) # {} =>
                /\ day_records[i].present <=> FirstPunch(i).in1 # None
                /\ (FirstPunch(i).in1 # None /\ FirstPunch(i).out2 = None) =>
                      day_records[i].present /\ day_records[i].worked_minutes = 0
                /\ (FirstPunch(i).in1 = None /\ FirstPunch(i).out2 # None) =>
                      ~day_records[i].present

\* C7 witness: one shift matched to an entry with in1 and no out2, another to
\* an entry with out2 and no in1
C7_Witness ==
    /\ Returned
    /\ \E i \in Shifts :
         /\ MatchIdx(i) # {}
         /\ FirstPunch(i).in1 # None /\ FirstPunch(i).out2 = None
         /\ day_records[i].present
    /\ \E i \in Shifts :
         /\ MatchIdx(i) # {}
         /\ FirstPunch(i).in1 = None /\ FirstPunch(i).out2 # None
         /\ ~day_records[i].present

C9_EarlyStrictlyBeforeThreshold ==
    pc = "returned" =>
        /\ Len(day_records) = Len(schedule_df)
        /\ \A i \in Shifts :
             /\ day_records[i].early_dismissal <=>
                   /\ day_records[i].present
                   /\ day_records[i].actual_out # None
                   /\ day_records[i].actual_out
                        < schedule_df[i].sched_end_dt - config.early_minutes
             /\ (MatchIdx(i) # {} /\ FirstPunch(i).in1 = None) =>
                   ~day_records[i].early_dismissal

\* C9 witness: a clock-out exactly at sched_end_dt - early_minutes that is
\* not an early dismissal, a clock-out without clock-in before that time, and
\* an early dismissal, in one call
C9_Witness ==
    /\ Returned
    /\ config.early_minutes = 15
    /\ \E i \in Shifts :
         /\ day_records[i].present
         /\ day_records[i].actual_out = schedule_df[i].sched_end_dt - 15
         /\ ~day_records[i].early_dismissal
    /\ \E i \in Shifts :
         /\ ~day_records[i].present
         /\ day_records[i].actual_out # None
         /\ day_records[i].actual_out < schedule_df[i].sched_end_dt - 15
         /\ ~day_records[i].early_dismissal

\* C10: actual_out is the matched entry's out2 advanced by one day when the
\* shift's end date is after its start date, in1 and out2 both exist and
\* out2's time of day is before in1's; in every other case it is out2 as is.
C10_ClockOutAdvancedOneDay ==
    pc = "returned" =>
        /\ Len(day_records) = Len(schedule_df)
        /\ \A i \in Shifts :
             MatchIdx(i) # {} =>
                LET p == FirstPunch(i)
                IN  IF /\ ShiftCrossesMidnight(i)
                       /\ p.in1 # None
                       /\ p.out2 # None
                       /\ p.out2 % MinutesPerDay < p.in1 % MinutesPerDay
                    THEN day_records[i].actual_out = p.out2 + MinutesPerDay
                    ELSE day_records[i].actual_out = p.out2

\* C10 witness: one call with a cross-midnight shift whose clock-out was
\* advanced and a shift of one day whose clock-out, also before the clock-in
\* by time of day, was not
C10_Witness ==
    /\ Returned
    /\ \E i \in Shifts :
         /\ ShiftCrossesMidnight(i)
         /\ MatchIdx(i) # {}
         /\ FirstPunch(i).out2 # None
         /\ day_records[i].actual_out = FirstPunch(i).out2 + MinutesPerDay
    /\ \E i \in Shifts :
         /\ ~ShiftCrossesMidnight(i)
         /\ MatchIdx(i) # {}
         /\ FirstPunch(i).in1 # None
         /\ FirstPunch(i).out2 # None
         /\ FirstPunch(i).out2 < FirstPunch(i).in1
         /\ day_records[i].actual_out = FirstPunch(i).out2

\* x floored at 0
NonNegative(x) == IF x > 0 THEN x ELSE 0

\* Shift i is the default PM shift, 16:00 to 00:15 of the next day
IsDefaultPMShift(i) ==
    /\ schedule_df[i].sched_start_dt = schedule_df[i].date * MinutesPerDay + 960
    /\ schedule_df[i].sched_end_dt = (schedule_df[i].date + 1) * MinutesPerDay + 15

\* Shift i is matched to a punch with clock-in 15:58 and clock-out 00:10,
\* both on the shift's date, and no lunch pair
PunchedAcrossMidnight(i) ==
    /\ MatchIdx(i) # {}
    /\ FirstPunch(i).in1 = schedule_df[i].date * MinutesPerDay + 958
    /\ FirstPunch(i).out2 = schedule_df[i].date * MinutesPerDay + 10
    /\ FirstPunch(i).out1 = None
    /\ FirstPunch(i).in2 = None

\* C11 (as claimed): the PM shift 16:00 to next-day 00:15 with clock-in 15:58
\* and clock-out 00:10 recorded on the clock-in's date yields worked_minutes
\* of about 252 (within a minute).  Violated: the code yields 492.
C11_WorkedAbout252 ==
    pc = "returned" =>
        \A i \in 1..Len(day_records) :
            (IsDefaultPMShift(i) /\ PunchedAcrossMidnight(i)) =>
                /\ day_records[i].worked_minutes >= 251
                /\ day_records[i].worked_minutes <= 253

\* C11 (amended): that shift's clock-out is moved to 00:10 of the day after
\* the clock-in and worked_minutes is 492 (15:58 to 00:10 is 8 h 12 min).
C11_Worked492 ==
    pc = "returned" =>
        /\ Len(day_records) = Len(schedule_df)
        /\ \A i \in Shifts :
             (IsDefaultPMShift(i) /\ PunchedAcrossMidnight(i)) =>
                /\ day_records[i].actual_out
                     = (schedule_df[i].date + 1) * MinutesPerDay + 10
                /\ day_records[i].actual_out \div MinutesPerDay
                     = day_records[i].actual_in \div MinutesPerDay + 1
                /\ day_records[i].worked_minutes = 492

\* C11 witness: the call returned the record of such a shift
C11_Witness ==
    /\ Returned
    /\ \E i \in Shifts :
         /\ IsDefaultPMShift(i)
         /\ PunchedAcrossMidnight(i)
         /\ day_records[i].worked_minutes = 492

\* The clock-out and the lunch minutes the claim C12 describes, from the
\* matched punch p of a shift that crosses midnight or not
ClaimedClockOut(p, crosses) ==
    IF crosses /\ p.out2 % MinutesPerDay < p.in1 % MinutesPerDay
    THEN p.out2 + MinutesPerDay ELSE p.out2

ClaimedLunchMinutes(p, crosses) ==
    IF p.out1 = None \/ p.in2 = None THEN 0
    ELSE LET lunch_in == IF crosses /\ p.in2 % MinutesPerDay < p.out1 % MinutesPerDay
                         THEN p.in2 + MinutesPerDay ELSE p.in2
         IN  NonNegative(lunch_in - p.out1)

\* C12: with clock-in and clock-out, worked_minutes is
\* max(0, (clock_out - clock_in) - lunch_minutes), lunch_minutes being
\* max(0, lunch_in - lunch_out) when both exist (lunch_in moved a day on on a
\* cross-midnight shift when its time of day is before lunch_out's) and 0
\* otherwise; without clock-in or clock-out worked_minutes is 0.
C12_WorkedMinutes ==
    pc = "returned" =>
        /\ Len(day_records) = Len(schedule_df)
        /\ \A i \in Shifts :
             IF MatchIdx(i) # {} /\ FirstPunch(i).in1 # None /\ FirstPunch(i).out2 # None
             THEN LET p == FirstPunch(i)
                      x == ShiftCrossesMidnight(i)
                  IN  day_records[i].worked_minutes
                        = NonNegative((ClaimedClockOut(p, x) - p.in1)
                                      - ClaimedLunchMinutes(p, x))
             ELSE day_records[i].worked_minutes = 0

\* C12 witness: a one-day shift whose lunch-in is before its lunch-out, worked
\* for the whole time between clock-in and clock-out, and a cross-midnight
\* shift whose lunch-in was moved to the next day, in one call
C12_Witness ==
    /\ Returned
    /\ \E i \in Shifts :
         /\ ~ShiftCrossesMidnight(i)
         /\ MatchIdx(i) # {}
         /\ FirstPunch(i).in2 # None
         /\ FirstPunch(i).in2 < FirstPunch(i).out1
         /\ day_records[i].worked_minutes > 0
         /\ day_records[i].worked_minutes = FirstPunch(i).out2 - FirstPunch(i).in1
    /\ \E i \in Shifts :
         /\ ShiftCrossesMidnight(i)
         /\ MatchIdx(i) # {}
         /\ FirstPunch(i).in2 # None
         /\ day_records[i].actual_in2 = FirstPunch(i).in2 + MinutesPerDay

\* Some returned warning names the date
WarnedFor(date) == \E w \in 1..Len(warnings) : warnings[w].date = date

\* C16 (as claimed): every data-quality condition met while reconciling (no
\* punch for a scheduled date, several punches for one date, a missing lunch
\* pair) is reported in the returned warnings, and nothing is raised.
\* Violated: only several punches for one date are reported.
C16_EveryConditionWarned ==
    pc = "returned" =>
        /\ raised = NoException
        /\ \A i \in Shifts :
             /\ MatchIdx(i) = {} => WarnedFor(schedule_df[i].date)
             /\ Cardinality(MatchIdx(i)) > 1 => WarnedFor(schedule_df[i].date)
             /\ (MatchIdx(i) # {}
                   /\ (FirstPunch(i).out1 = None \/ FirstPunch(i).in2 = None)) =>
                   WarnedFor(schedule_df[i].date)

\* C19: shifts of one date are matched to the same punch entry, which none of
\* them uses up: their records agree on present, actual_in and actual_out1,
\* and their actual_out and actual_in2 are that entry's out2 and in2, as they
\* are or a day later.
C19_SameDateSamePunch ==
    pc = "returned" =>
        /\ Len(day_records) = Len(schedule_df)
        /\ \A i \in Shifts : \A j \in Shifts :
             (schedule_df[i].date = schedule_df[j].date /\ MatchIdx(i) # {}) =>
                LET p == FirstPunch(i)
                IN  /\ day_records[j].present = day_records[i].present
                    /\ day_records[j].present <=> p.in1 # None
                    /\ day_records[j].actual_in = p.in1
                    /\ day_records[j].actual_out1 = p.out1
                    /\ day_records[j].actual_out \in { p.out2, p.out2 + MinutesPerDay }
                    /\ day_records[j].actual_in2 \in { p.in2, p.in2 + MinutesPerDay }

\* C19 witness: the AM and the PM shift of one date, one punch entry for that
\* date, both present with minutes worked, so that the Summary counts that
\* punch's time twice
C19_Witness ==
    /\ Returned
    /\ Len(schedule_df) = 2
    /\ schedule_df[1].date = schedule_df[2].date
    /\ schedule_df[1].shift_type = "AM"
    /\ schedule_df[2].shift_type = "PM"
    /\ Cardinality(MatchIdx(1)) = 1
    /\ day_records[1].present /\ day_records[2].present
    /\ day_records[1].worked_minutes_clipped > 0
    /\ day_records[2].worked_minutes_clipped > 0
    /\ summary.shifts_worked = 2
    /\ summary.worked_hours * 60
         > 100 * (FirstPunch(1).out2 - FirstPunch(1).in1) + 60

\* C20: in every DayRecord tardy implies present and early_dismissal implies
\* present, and the Summary has tardy_count <= shifts_worked <=
\* scheduled_shifts and early_dismissal_count <= shifts_worked.
C20_FlagsImplyPresent ==
    pc = "returned" =>
        /\ \A i \in 1..Len(day_records) :
             /\ day_records[i].tardy => day_records[i].present
             /\ day_records[i].early_dismissal => day_records[i].present
        /\ summary.tardy_count <= summary.shifts_worked
        /\ summary.early_dismissal_count <= summary.shifts_worked
        /\ summary.shifts_worked <= summary.scheduled_shifts

\* C20 witness: a tardy early dismissal and, in the same call, a shift that is
\* not present although its punch has a clock-out before the threshold
C20_Witness ==
    /\ Returned
    /\ \E i \in Shifts : day_records[i].tardy /\ day_records[i].early_dismissal
    /\ \E i \in Shifts :
         /\ ~day_records[i].present
         /\ day_records[i].actual_out # None
         /\ day_records[i].actual_out
              < schedule_df[i].sched_end_dt - config.early_minutes
    /\ summary.tardy_count = 1
    /\ summary.shifts_worked = 1

\* |x|
Abs(x) == IF x >= 0 THEN x ELSE 0 - x

\* v is num / den (den > 0) rounded to 2 decimals, as the rounded value times
\* 100: no multiple of 0.01 is nearer to the quotient
IsRoundedTo2(v, num, den) == 2 * Abs(num * 100 - v * den) <= den

RECURSIVE TotalSched(_, _)
\* Scheduled minutes of the first n records
TotalSched(records, n) ==
    IF n = 0 THEN 0 ELSE TotalSched(records, n - 1) + records[n].sched_minutes

RECURSIVE TotalClipped(_, _)
\* Clipped worked minutes of the first n records
TotalClipped(records, n) ==
    IF n = 0 THEN 0
    ELSE TotalClipped(records, n - 1) + records[n].worked_minutes_clipped

\* Positions of the records that are present, tardy, early dismissals
PresentIdx(records) == { i \in 1..Len(records) : records[i].present }
TardyIdx(records) == { i \in 1..Len(records) : records[i].tardy }
EarlyIdx(records) == { i \in 1..Len(records) : records[i].early_dismissal }

\* C13: calculate_summary returns the number of records, the numbers of
\* present, tardy and early_dismissal records, and sum(sched_minutes) / 60 and
\* sum(worked_minutes_clipped) / 60 rounded to 2 decimals; all 0 for the empty
\* list; 2, 1, 50.0, 13.5, 6.67 and no early dismissal for the test's two
\* records.
C13_SummaryCountsAndHours ==
    pc = "returned" =>
        LET n == Len(day_records)
        IN  /\ summary.scheduled_shifts = n
            /\ summary.shifts_worked = Cardinality(PresentIdx(day_records))
            /\ summary.tardy_count = Cardinality(TardyIdx(day_records))
            /\ summary.early_dismissal_count = Cardinality(EarlyIdx(day_records))
            /\ IsRoundedTo2(summary.scheduled_hours, TotalSched(day_records, n), 60)
            /\ IsRoundedTo2(summary.worked_hours, TotalClipped(day_records, n), 60)
            /\ n = 0 =>
                 /\ summary.shifts_worked = 0
                 /\ summary.tardy_count = 0
                 /\ summary.early_dismissal_count = 0
                 /\ summary.scheduled_hours = 0
                 /\ summary.worked_hours = 0
                 /\ summary.attendance_pct_shifts = 0
                 /\ summary.attendance_pct_hours = 0
            /\ day_records = TestRecords =>
                 /\ summary.scheduled_shifts = 2
                 /\ summary.shifts_worked = 1
                 /\ summary.attendance_pct_shifts = 5000
                 /\ summary.scheduled_hours = 1350
                 /\ summary.worked_hours = 667
                 /\ summary.early_dismissal_count = 0

\* C13 witness: the Summary of three records, one of them worked longer than
\* scheduled, whose worked_hours is that of the clipped minutes
C13_Witness ==
    /\ pc = "returned"
    /\ Len(day_records) = 3
    /\ day_records[1] = TestRecords[1]
    /\ day_records[2] = TestRecords[2]
    /\ day_records[3].worked_minutes > day_records[3].worked_minutes_clipped
    /\ day_records[3].worked_minutes_clipped = 405
    /\ summary.worked_hours = 1342
    /\ summary.scheduled_hours = 2025

\* C14: attendance_pct_shifts is shifts_worked / scheduled_shifts * 100 and
\* attendance_pct_hours is sum(worked_minutes_clipped) / sum(sched_minutes) *
\* 100, each rounded to 2 decimals once, from the unrounded sums;
\* attendance_pct_hours is 0 when the scheduled minutes total 0.
C14_PercentagesFromUnroundedSums ==
    pc = "returned" =>
        LET n  == Len(day_records)
            st == TotalSched(day_records, n)
            wt == TotalClipped(day_records, n)
        IN  /\ n > 0 =>
                 IsRoundedTo2(summary.attendance_pct_shifts,
                              100 * Cardinality(PresentIdx(day_records)), n)
            /\ st > 0 => IsRoundedTo2(summary.attendance_pct_hours, 100 * wt, st)
            /\ st = 0 => summary.attendance_pct_hours = 0

\* C14 witness: the Summary of the test's two records, 400 of 810 minutes:
\* 49.38 per cent, where the rounded hours 6.67 of 13.5 would give 49.41
C14_Witness ==
    /\ pc = "returned"
    /\ day_records = TestRecords
    /\ summary.attendance_pct_hours = 4938
    /\ summary.attendance_pct_shifts = 5000

\* C15: the Summary of any permutation of the records is the same Summary.
C15_SummaryOrderIndependent ==
    pc = "returned" =>
        \A perm \in Permutations(1..Len(day_records)) :
            calculate_summary([i \in 1..Len(day_records) |-> day_records[perm[i]]])
              = summary

\* C15 witness: the Summary of three records that differ in every figure the
\* Summary adds up
C15_Witness ==
    /\ pc = "returned"
    /\ Len(day_records) = 3
    /\ day_records[1].present /\ ~day_records[2].present
    /\ day_records[1].sched_minutes # day_records[2].sched_minutes
    /\ day_records[2].sched_minutes # day_records[3].sched_minutes
    /\ day_records[1].worked_minutes_clipped # day_records[3].worked_minutes_clipped
    /\ day_records[3].worked_minutes_clipped > 0
    /\ summary.shifts_worked = 2

\* C18: an entry of result_storage is never removed or overwritten, a
\* download of a stored id answers 200 with the entry stored under it, and a
\* download of an id never stored answers 404 and leaves the store as it was.
C18_StoredResultsLiveForever ==
    [][ /\ \A j \in DOMAIN result_storage :
             /\ j \in DOMAIN result_storage'
             /\ result_storage'[j] = result_storage[j]
        /\ response'.endpoint = "csv" =>
             IF response'.job_id \in DOMAIN result_storage
             THEN /\ response'.status = 200
                  /\ response'.body = result_storage[response'.job_id]
                  /\ response'.body = result_storage'[response'.job_id]
             ELSE /\ response'.status = 404
                  /\ result_storage' = result_storage
      ]_vars

\* C18 witness: every job id holds a result, two of them different, and the
\* last request downloaded one of them
C18_Witness ==
    /\ DOMAIN result_storage = JobIds
    /\ \E i \in JobIds : \E j \in JobIds : result_storage[i] # result_storage[j]
    /\ response.endpoint = "csv"
    /\ response.status = 200
    /\ response.body = result_storage[response.job_id]

\* C21: in every DayRecord with a matched punch, actual_in and actual_out1
\* are the punch's in1 and out1; actual_out and actual_in2 are the punch's
\* out2 and in2, each as is or advanced by exactly one day; and either is
\* advanced only on a shift that crosses midnight whose punch has both in1
\* and out2.
C21_NormalizationFrame ==
    pc = "returned" =>
        /\ Len(day_records) = Len(schedule_df)
        /\ \A i \in Shifts :
             MatchIdx(i) # {} =>
                LET p == FirstPunch(i)
                    r == day_records[i]
                    out_advanced == p.out2 # None /\ r.actual_out = p.out2 + MinutesPerDay
                    in2_advanced == p.in2 # None /\ r.actual_in2 = p.in2 + MinutesPerDay
                IN  /\ r.actual_in = p.in1
                    /\ r.actual_out1 = p.out1
                    /\ r.actual_out = p.out2 \/ out_advanced
                    /\ r.actual_in2 = p.in2 \/ in2_advanced
                    /\ (out_advanced \/ in2_advanced) =>
                          /\ ShiftCrossesMidnight(i)
                          /\ p.in1 # None
                          /\ p.out2 # None

\* C21 witness: one call with a cross-midnight shift whose lunch clock-in was
\* advanced while its clock-out was not, and a cross-midnight shift whose
\* punch has no out2 and whose lunch clock-in, before the lunch clock-out by
\* time of day, was left as it was
C21_Witness ==
    /\ Returned
    /\ \E i \in Shifts :
         /\ ShiftCrossesMidnight(i)
         /\ MatchIdx(i) # {}
         /\ FirstPunch(i).in2 # None
         /\ day_records[i].actual_in2 = FirstPunch(i).in2 + MinutesPerDay
         /\ day_records[i].actual_out = FirstPunch(i).out2
         /\ day_records[i].actual_out1 = FirstPunch(i).out1
    /\ \E i \in Shifts :
         /\ ShiftCrossesMidnight(i)
         /\ MatchIdx(i) # {}
         /\ FirstPunch(i).out2 = None
         /\ FirstPunch(i).out1 # None
         /\ FirstPunch(i).in2 # None
         /\ FirstPunch(i).in2 % MinutesPerDay < FirstPunch(i).out1 % MinutesPerDay
         /\ day_records[i].actual_in2 = FirstPunch(i).in2

====
